---- MODULE Spec2Model ----
(***************************************************************************)
(* Probe side of the vectorized nested-loop join operator                  *)
(* (be/src/exec/pipeline/crossjoin/nljoin_probe_operator.cpp).             *)
(*                                                                         *)
(* Several probe partitions (NLJoinProbeOperator instances) share one      *)
(* CrossJoinContext.  A build row is named by its 1-based position in the  *)
(* concatenation of all build chunks; a build chunk is modelled by its row *)
(* count.  A probe row is modelled by the set of build rows the join       *)
(* conjuncts accept for it, which is all a predicate can tell about it.    *)
(* An output row is <<probe row, build row>>, 0 standing for a null side;  *)
(* probe rows are numbered per partition in the order they were pushed.    *)
(***************************************************************************)
EXTENDS Integers, Sequences, FiniteSets

\* ---------------------------------------------------------------- bounds
\* probe partitions sharing the context
MaxParts == 2
\* largest configured chunk size
MaxChunkSize == 3
\* build rows in all build chunks together
MaxBuildRows == 3
\* probe rows pushed to all partitions together
MaxProbeRows == 2
\* a failing predicate evaluation is one of the first MaxEvals of its pull_chunk
MaxEvals == 2
\* failed pull_chunk calls of a partition
MaxErrors == 1

\* ------------------------------------------------------------- constants
\* JoinStage, ordered as DCHECK_LE in _advance_join_stage compares it
Probe == 0
RightJoin == 1
PostRightJoin == 2
Finished == 3

JoinOps == {"INNER_JOIN", "LEFT_OUTER_JOIN", "RIGHT_OUTER_JOIN", "FULL_OUTER_JOIN"}

VARIABLES
    join_op,            \* _join_op (same plan node for every partition)
    has_join_conjuncts, \* !_join_conjuncts.empty()
    has_conjuncts,      \* !_conjunct_ctxs.empty(): residual predicates
    chunk_size,         \* state->chunk_size()
    num_parts,          \* number of probe partitions sharing the context
    ctx,                \* the CrossJoinContext
    op,                 \* op[p]: the fields of partition p's operator
    hist,               \* hist[p]: what partition p was given and returned
    crashed             \* the process died on a null dereference

vars == <<join_op, has_join_conjuncts, has_conjuncts, chunk_size, num_parts,
          ctx, op, hist, crashed>>

Parts == 1..num_parts

\* ------------------------------------------------------------- utilities
RECURSIVE SumSeq(_)
SumSeq(s) == IF s = <<>> THEN 0 ELSE Head(s) + SumSeq(Tail(s))

RECURSIVE Flatten(_)
Flatten(ss) == IF ss = <<>> THEN <<>> ELSE Head(ss) \o Flatten(Tail(ss))

Range(s) == {s[i] : i \in 1..Len(s)}

Count(s, x) == Cardinality({i \in 1..Len(s) : s[i] = x})

Max(a, b) == IF a >= b THEN a ELSE b

\* ---------------------------------------------------- Cross Join Context
\* num_build_chunks()
_num_build_chunks == Len(ctx.build_chunks)

\* num_build_rows()
num_build_rows == SumSeq(ctx.build_chunks)

\* is_build_chunk_empty()
is_build_chunk_empty == num_build_rows = 0

\* is_right_finished()
is_right_finished == ctx.right_finished

\* get_build_chunk_start(index): rows in the build chunks before chunk index (0-based)
get_build_chunk_start(index) == SumSeq(SubSeq(ctx.build_chunks, 1, index))

\* rows of build chunk index (0-based), as global build row numbers
get_build_chunk(index) ==
    [i \in 1..ctx.build_chunks[index + 1] |-> get_build_chunk_start(index) + i]

\* merge of a partition's local flags into the shared vector (finish_probe)
merge_match_flags(shared, local) ==
    [i \in 1..Len(shared) |-> shared[i] \/ (i <= Len(local) /\ local[i])]

\* ------------------------------------------------------------- join kind
\* _is_left_join()
_is_left_join == join_op \in {"LEFT_OUTER_JOIN", "FULL_OUTER_JOIN"}

\* _is_right_join()
_is_right_join == join_op \in {"RIGHT_OUTER_JOIN", "FULL_OUTER_JOIN"}

\* is_ready()
is_ready == is_right_finished

\* (variant: the join kind is not looked at)
_skip_probe_any_join == is_ready /\ is_build_chunk_empty

\* _skip_probe()
_skip_probe == is_ready /\ ~_is_left_join /\ is_build_chunk_empty

\* _is_curr_probe_chunk_finished(); a null probe chunk is the empty sequence
_is_curr_probe_chunk_finished(st) == st.probe_row_current >= Len(st.probe_chunk)

\* ----------------------------------------------------- output accumulator
\* ChunkAccumulator::push: rows are cut into pieces of the desired size
RECURSIVE ChunkAccumulator_push(_, _)
ChunkAccumulator_push(acc, rows) ==
    IF rows = <<>> THEN acc
    ELSE LET tmp == Append(acc.tmp, Head(rows))
         IN IF Len(tmp) >= chunk_size
            THEN ChunkAccumulator_push([output |-> Append(acc.output, tmp), tmp |-> <<>>], Tail(rows))
            ELSE ChunkAccumulator_push([output |-> acc.output, tmp |-> tmp], Tail(rows))

\* ChunkAccumulator::finalize: the partial chunk is released
ChunkAccumulator_finalize(acc) ==
    IF acc.tmp = <<>> THEN acc
    ELSE [output |-> Append(acc.output, acc.tmp), tmp |-> <<>>]

\* ChunkAccumulator::empty: nothing is buffered
ChunkAccumulator_empty(acc) == acc.output = <<>> /\ acc.tmp = <<>>

\* ChunkAccumulator::pull: the released chunk handed out, <<>> for nullptr
ChunkAccumulator_pull(acc) == IF acc.output = <<>> THEN <<>> ELSE Head(acc.output)

ChunkAccumulator_pulled(acc) ==
    IF acc.output = <<>> THEN acc ELSE [acc EXCEPT !.output = Tail(acc.output)]

\* ------------------------------------------------------ cross-product generator
\* value of the probe row an output row was generated from
ProbeValue(st, row) == st.probe_chunk[row[1] - st.probe_base]

\* _move_build_chunk_index(index): _curr_build_chunk is null iff index = num chunks;
\* build_read records that get_build_chunk was called
_move_build_chunk_index(st, index) ==
    [st EXCEPT !.curr_build_chunk_index = index,
               !.build_read = @ \/ index < _num_build_chunks]

\* (variant: the row at which the call began is broadcast)
_permute_probe_row_start(st) ==
    LET rows == get_build_chunk(st.curr_build_chunk_index)
    IN [i \in 1..Len(rows) |-> <<st.probe_base + st.probe_row_start + 1, rows[i]>>]

\* _permute_probe_row: the current probe row against the current build chunk
_permute_probe_row(st) ==
    LET rows == get_build_chunk(st.curr_build_chunk_index)
    IN [i \in 1..Len(rows) |-> <<st.probe_base + st.probe_row_current + 1, rows[i]>>]

\* (variant: the test is strict)
reach_chunk_size_strict(rows) == rows > chunk_size

\* the size test that ends _permute_chunk early
reach_chunk_size(rows) == rows >= chunk_size

\* (variant: the build cursor is not moved back to the first build chunk)
next_probe_row_keep_index(st) ==
    [st EXCEPT !.probe_row_matched = FALSE, !.probe_row_current = @ + 1]

\* the end of the outer loop body of _permute_chunk: on to the next probe row
next_probe_row(st) ==
    [_move_build_chunk_index(st, 0) EXCEPT !.probe_row_matched = FALSE,
                                       !.probe_row_current = @ + 1]

\* the loops of _permute_chunk; w = [st, hs], chunk is the batch under construction
RECURSIVE _permute_chunk_loop(_, _)
_permute_chunk_loop(w, chunk) ==
    LET st == w.st
    IN IF st.probe_row_current >= Len(st.probe_chunk)
       THEN [st |-> st, hs |-> w.hs, chunk |-> chunk]
       ELSE IF st.curr_build_chunk_index < _num_build_chunks
            THEN LET chunk2 == chunk \o _permute_probe_row(st)
                     st2 == _move_build_chunk_index(st, st.curr_build_chunk_index + 1)
                     hs2 == [w.hs EXCEPT
                                !.pairs = Append(@, <<st.probe_row_current,
                                                      st.curr_build_chunk_index>>),
                                !.gen = @ \o _permute_probe_row(st)]
                 IN IF reach_chunk_size(Len(chunk2))
                    THEN [st |-> st2, hs |-> hs2, chunk |-> chunk2]
                    ELSE _permute_chunk_loop([st |-> st2, hs |-> hs2], chunk2)
            ELSE _permute_chunk_loop([st |-> next_probe_row(st), hs |-> w.hs], chunk)

\* _permute_chunk
_permute_chunk(w) ==
    LET r == _permute_chunk_loop([st |-> [w.st EXCEPT !.probe_row_start = w.st.probe_row_current],
                          hs |-> w.hs], <<>>)
    IN [r EXCEPT !.hs.gen_max = Max(@, Len(r.chunk))]

\* _permute_left_join: probe rows [probe_row_index, probe_row_index + probe_rows)
\* of the current probe chunk (0-based), build columns null
_permute_left_join(st, chunk, probe_row_index, probe_rows) ==
    chunk \o [i \in 1..probe_rows |-> <<st.probe_base + probe_row_index + i, 0>>]

\* ------------------------------------------------- predicates and outer joins
\* eval_conjuncts_and_in_filters(_join_conjuncts, ...): the filter over the rows
join_conjuncts_filter(st, chunk) == [i \in 1..Len(chunk) |-> chunk[i][2] \in ProbeValue(st, chunk[i])]

\* ... and the chunk it leaves, non-matching rows removed
join_conjuncts_filtered(st, chunk) == SelectSeq(chunk, LAMBDA row : row[2] \in ProbeValue(st, row))

\* the residual predicate, when there is one: it rejects rows carrying build row 1
conjuncts_pass(row) == row[2] # 1

\* eval_conjuncts(_conjunct_ctxs, chunk)
eval_conjuncts(chunk) == IF has_conjuncts THEN SelectSeq(chunk, conjuncts_pass) ELSE chunk

\* a predicate evaluation returns an error status: st.fail_in counts the
\* evaluations of the call in progress down to the failing one, 0 for none
eval_fails(st, evaluated) == evaluated /\ st.fail_in = 1

\* the evaluation succeeded
eval_done(st, evaluated) ==
    IF evaluated /\ st.fail_in > 1 THEN [st EXCEPT !.fail_in = @ - 1] ELSE st

\* RETURN_IF_ERROR: the call in progress returns the error status
eval_failed(st) == [st EXCEPT !.fail_in = 0, !.failed = TRUE]

\* SIMD::contain_nonzero(filter, start, count), start 0-based
contain_nonzero(filter, start, count) == \E i \in (start + 1)..(start + count) : filter[i]

\* the probe row a run of the filter is attributed to (single build chunk)
probe_row_index(st, run) == st.probe_row_start + run

\* _probe, left/full outer, exactly one build chunk: the rows appended for the
\* runs of num_build_rows filter entries that hold no true entry
RECURSIVE left_join_single_chunk(_, _, _, _)
left_join_single_chunk(st, filter, run, chunk) ==
    IF run * num_build_rows >= Len(filter) THEN chunk
    ELSE left_join_single_chunk(st, filter, run + 1,
            IF contain_nonzero(filter, run * num_build_rows, num_build_rows) THEN chunk
            ELSE _permute_left_join(st, chunk, probe_row_index(st, run), 1))

\* _probe, right/full outer, exactly one build chunk: every run is or-ed into the flags
right_join_single_chunk(flags, filter) ==
    [j \in 1..Len(flags) |->
        flags[j] \/ \E run \in 0..(Len(filter) \div num_build_rows) :
                        /\ run * num_build_rows + j <= Len(filter)
                        /\ run * num_build_rows < Len(filter)
                        /\ filter[run * num_build_rows + j]]

\* the build chunk whose flags _probe writes (several build chunks)
flag_chunk_index(st) == st.curr_build_chunk_index

\* _probe, right/full outer, several build chunks: flag_count filter entries are
\* or-ed in at flag_start; entries read past the end of the filter are garbage gb
right_join_multi_chunk(st, flags, filter, gb) ==
    LET flag_start == get_build_chunk_start(flag_chunk_index(st))
        flag_count == ctx.build_chunks[flag_chunk_index(st) + 1]
    IN [j \in 1..Len(flags) |->
          IF j > flag_start /\ j <= flag_start + flag_count
          THEN flags[j] \/ (IF j - flag_start <= Len(filter)
                            THEN filter[j - flag_start] ELSE gb[j - flag_start])
          ELSE flags[j]]

\* observation of _probe, left/full outer, one build chunk: every run of the
\* filter is attributed (probe_row_index) to the probe row broadcast into its rows
runs_attributed(st, chunk) ==
    \A run \in 0..((Len(chunk) \div num_build_rows) - 1) :
        chunk[run * num_build_rows + 1][1] = st.probe_base + probe_row_index(st, run) + 1

\* _probe: w = [st, hs, chunk]; the result adds dead, a null pointer was dereferenced
_probe(w, gb) ==
    LET st == w.st
        chunk == w.chunk
        has_filter == chunk # <<>>
        filter == join_conjuncts_filter(st, chunk)
        chunk1 == join_conjuncts_filtered(st, chunk)
        hs1 == [w.hs EXCEPT
                  !.join_evals = @ \/ has_filter,
                  !.run_attr_ok = @ /\ (IF _is_left_join /\ _num_build_chunks = 1 /\ has_filter
                                        THEN runs_attributed(st, chunk) ELSE TRUE)]
        \* left/full outer part
        left_dead == _is_left_join /\ _num_build_chunks >= 1 /\ ~has_filter
        matched == st.probe_row_matched \/ contain_nonzero(filter, 0, Len(filter))
        probe_row_finished == st.curr_build_chunk_index >= _num_build_chunks
        chunk2 == IF ~_is_left_join THEN chunk1
                  ELSE IF _num_build_chunks = 0
                       THEN _permute_left_join(st, chunk1, 0, Len(st.probe_chunk))
                  ELSE IF _num_build_chunks = 1
                       THEN left_join_single_chunk(st, filter, 0, chunk1)
                  ELSE IF ~matched /\ probe_row_finished
                       THEN _permute_left_join(st, chunk1, st.probe_row_current, 1)
                       ELSE chunk1
        st2 == IF _is_left_join /\ _num_build_chunks > 1
               THEN [st EXCEPT !.probe_row_matched = matched] ELSE st
        \* right/full outer part
        do_right == _is_right_join /\ has_filter
        right_dead == do_right /\ _num_build_chunks # 1
                               /\ st.curr_build_chunk_index >= _num_build_chunks
        flags == IF ~do_right THEN st.self_build_match_flag
                 ELSE IF _num_build_chunks = 1
                      THEN right_join_single_chunk(st.self_build_match_flag, filter)
                      ELSE right_join_multi_chunk(st, st.self_build_match_flag, filter, gb)
    IN IF ~has_join_conjuncts
       THEN [st |-> st, hs |-> w.hs, chunk |-> chunk, dead |-> FALSE]
       ELSE IF eval_fails(st, has_filter)
            THEN [st |-> eval_failed(st), hs |-> hs1, chunk |-> <<>>, dead |-> FALSE]
       ELSE IF left_dead \/ right_dead
            THEN [st |-> st, hs |-> hs1, chunk |-> chunk1, dead |-> TRUE]
            ELSE [st |-> [eval_done(st2, has_filter) EXCEPT !.self_build_match_flag = flags],
                  hs |-> hs1, chunk |-> chunk2, dead |-> FALSE]

\* ------------------------------------------------------ unmatched-build emitter
\* rows of build chunk chunk_index whose shared flag is unset, probe columns null
unmatched_rows(chunk_index) ==
    LET rows == get_build_chunk(chunk_index)
        un == SelectSeq(rows, LAMBDA g : ~ctx.shared_build_match_flag[g])
    IN [i \in 1..Len(un) |-> <<0, un[i]>>]

RECURSIVE _permute_right_join_loop(_, _)
_permute_right_join_loop(st, chunk_index) ==
    IF chunk_index >= _num_build_chunks THEN st
    ELSE LET evaluated == has_conjuncts /\ unmatched_rows(chunk_index) # <<>>
         IN IF eval_fails(st, evaluated)
            THEN eval_failed(_move_build_chunk_index(st, chunk_index))
            ELSE _permute_right_join_loop(
                    [eval_done(_move_build_chunk_index(st, chunk_index), evaluated) EXCEPT
                        !.acc = ChunkAccumulator_push(@,
                                    eval_conjuncts(unmatched_rows(chunk_index)))],
                    chunk_index + 1)

\* _permute_right_join
_permute_right_join(st) ==
    IF \A i \in 1..Len(ctx.shared_build_match_flag) : ctx.shared_build_match_flag[i]
    THEN st
    ELSE _permute_right_join_loop(st, 0)

\* ------------------------------------------------------------ state machine
\* CrossJoinContext::finish_probe: the caller is counted and its flags merged
finish_probe(cx, flags) ==
    [cx EXCEPT !.finished_probe_count = @ + 1,
               !.shared_build_match_flag = merge_match_flags(@, flags)]

\* ... and its answer: the caller is the last partition to report
finish_probe_is_last(cx) == cx.finished_probe_count = num_parts

\* the switch of _check_post_probe; granted is finish_probe's answer
post_probe_stage(stage, granted, output_finished) ==
    CASE stage = Probe -> IF ~_is_right_join \/ ~granted THEN Finished ELSE RightJoin
      [] stage = RightJoin -> RightJoin
      [] stage = PostRightJoin -> IF output_finished THEN Finished ELSE PostRightJoin
      [] OTHER -> Finished

\* (variant: the stage is looked at on every call)
post_probe_fire_always(st, output_finished) == TRUE

\* (variant: the end of the input is not awaited)
post_probe_fire_unfinished(st, output_finished) == output_finished \/ _skip_probe

\* (variant: pending output is not looked at)
post_probe_fire_no_output(st, output_finished) == st.input_finished \/ _skip_probe

\* the condition under which _check_post_probe looks at the stage
post_probe_fire(st, output_finished) == (st.input_finished /\ output_finished) \/ _skip_probe

\* _check_post_probe on partition state st, context cx, history hs
_check_post_probe(st, cx, hs) ==
    LET output_finished == _is_curr_probe_chunk_finished(st) /\ ChunkAccumulator_empty(st.acc)
        fire == post_probe_fire(st, output_finished)
        call == fire /\ st.join_stage = Probe /\ _is_right_join
        cx2 == IF call THEN finish_probe(cx, st.self_build_match_flag) ELSE cx
        granted == call /\ finish_probe_is_last(cx2)
    IN [st |-> IF fire
               THEN [st EXCEPT !.join_stage = post_probe_stage(@, granted, output_finished)]
               ELSE st,
        cx |-> cx2,
        hs |-> IF call THEN [hs EXCEPT !.finish_calls = @ + 1] ELSE hs]

\* (variant: is_ready is not consulted)
need_input_no_ready(st) ==
    IF _skip_probe THEN FALSE ELSE _is_curr_probe_chunk_finished(st)

\* need_input()
need_input(st) ==
    IF ~is_ready THEN FALSE
    ELSE IF _skip_probe THEN FALSE
    ELSE _is_curr_probe_chunk_finished(st)

\* _init_build_match: the local flags are sized once the build row count is known
_init_build_match(flags) ==
    IF _is_right_join /\ is_right_finished /\ Len(flags) < num_build_rows
    THEN flags \o [i \in 1..(num_build_rows - Len(flags)) |-> FALSE]
    ELSE flags

\* (variant: the stage is left as it is after the emission)
pull_chunk_stage_stay(stage) == stage

\* (variant: the operator goes back to probing after the emission)
pull_chunk_stage_back(stage) == IF stage = RightJoin THEN Probe ELSE stage

\* the stage in which pull_chunk leaves the operator
pull_chunk_stage(stage) == IF stage = RightJoin THEN PostRightJoin ELSE stage

\* pull_chunk returns nullptr at once
pull_chunk_returns_null(stage) == stage = Finished

\* the probe loop of pull_chunk; w = [st, hs], the result adds res (the chunk
\* returned from inside the loop, <<>> for none) and dead
RECURSIVE pull_chunk_loop(_, _)
pull_chunk_loop(w, gb) ==
    IF ~(w.st.probe_row_current < Len(w.st.probe_chunk))
    THEN [st |-> w.st, hs |-> w.hs, res |-> <<>>, dead |-> FALSE]
    ELSE LET pushed(pr, acc2) ==
                 IF pr.dead
                 THEN [st |-> pr.st, hs |-> pr.hs, res |-> <<>>, dead |-> TRUE]
                 ELSE IF acc2.output # <<>>
                      THEN [st |-> [pr.st EXCEPT !.acc = ChunkAccumulator_pulled(acc2)],
                            hs |-> pr.hs, res |-> ChunkAccumulator_pull(acc2), dead |-> FALSE]
                      ELSE pull_chunk_loop([st |-> [pr.st EXCEPT !.acc = acc2],
                                            hs |-> pr.hs], gb)
             failed(pr) == [st |-> pr.st, hs |-> pr.hs, res |-> <<>>, dead |-> FALSE]
             probed(pr) ==
                 IF pr.dead
                 THEN pushed(pr, pr.st.acc)
                 ELSE IF pr.st.failed
                 THEN failed(pr)
                 ELSE IF eval_fails(pr.st, has_conjuncts /\ pr.chunk # <<>>)
                 THEN failed([pr EXCEPT !.st = eval_failed(@)])
                 ELSE pushed([pr EXCEPT !.st = eval_done(@, has_conjuncts /\ pr.chunk # <<>>)],
                             ChunkAccumulator_push(pr.st.acc, eval_conjuncts(pr.chunk)))
         IN probed(_probe(_permute_chunk(w), gb))

\* pull_chunk on partition state st with history hs
pull_chunk_result(st, hs, gb) ==
    IF pull_chunk_returns_null(st.join_stage)
    THEN [st |-> st, hs |-> hs, res |-> <<>>, dead |-> FALSE]
    ELSE LET emit == st.join_stage = RightJoin
             emitted(pj) ==
                 IF pj.failed THEN pj
                 ELSE [pj EXCEPT !.acc = ChunkAccumulator_finalize(@),
                                 !.join_stage = pull_chunk_stage(@)]
             st1 == IF emit THEN emitted(_permute_right_join(st)) ELSE st
             hs1 == IF emit THEN [hs EXCEPT !.emit_runs = @ + 1] ELSE hs
             finalized(lp, fin) ==
                 [st |-> [lp.st EXCEPT !.acc = ChunkAccumulator_pulled(fin)], hs |-> lp.hs,
                  res |-> ChunkAccumulator_pull(fin), dead |-> FALSE]
             looped(lp) ==
                 IF lp.dead \/ lp.res # <<>> \/ lp.st.failed THEN lp
                 ELSE finalized(lp, ChunkAccumulator_finalize(lp.st.acc))
             pulled(s1, h1) ==
                 IF s1.failed
                 THEN [st |-> s1, hs |-> h1, res |-> <<>>, dead |-> FALSE]
                 ELSE IF s1.acc.output # <<>>
                 THEN [st |-> [s1 EXCEPT !.acc = ChunkAccumulator_pulled(@)], hs |-> h1,
                       res |-> ChunkAccumulator_pull(s1.acc), dead |-> FALSE]
                 ELSE looped(pull_chunk_loop([st |-> s1, hs |-> h1], gb))
         IN pulled(st1, hs1)

\* ------------------------------------------------------------------- inputs
RECURSIVE SeqsUpTo(_, _)
SeqsUpTo(S, n) ==
    IF n = 0 THEN {<<>>}
    ELSE LET shorter == SeqsUpTo(S, n - 1)
         IN shorter \cup {Append(s, x) : s \in {t \in shorter : Len(t) = n - 1}, x \in S}

\* the probe rows a pushed chunk may hold: each row is the set of build rows the
\* join conjuncts accept for it (none, the first, the last, all of them); without
\* join conjuncts no code reads it and one value stands for all
ProbeValues ==
    IF num_build_rows = 0 \/ ~has_join_conjuncts THEN {{}}
    ELSE {{}, {1}, {num_build_rows}, 1..num_build_rows}

\* probe rows pushed so far, over all partitions
TotalPushed == SumSeq([p \in 1..MaxParts |-> Len(hist[p].pushed)])

ProbeChunks == SeqsUpTo(ProbeValues, MaxProbeRows - TotalPushed) \ {<<>>}

\* the values an out-of-bounds read of the filter may deliver: the filter holds
\* an entry at least, and one of several build chunks has fewer rows than all
GarbageIndex == 2..(MaxBuildRows - 1)

Garbage ==
    IF _is_right_join /\ has_join_conjuncts /\ _num_build_chunks > 1
    THEN [GarbageIndex -> BOOLEAN]
    ELSE {[i \in GarbageIndex |-> FALSE]}

\* ------------------------------------------------------------------ actions
InitOp ==
    [join_stage |-> Probe, input_finished |-> FALSE,
     probe_chunk |-> <<>>, probe_base |-> 0,
     probe_row_start |-> 0, probe_row_current |-> 0, probe_row_matched |-> FALSE,
     curr_build_chunk_index |-> 0, build_read |-> FALSE,
     self_build_match_flag |-> <<>>,
     acc |-> [output |-> <<>>, tmp |-> <<>>],
     fail_in |-> 0, failed |-> FALSE]

InitHist ==
    [out |-> <<>>, pushed |-> <<>>, pairs |-> <<>>, gen |-> <<>>, gen_max |-> 0,
     join_evals |-> FALSE, finish_calls |-> 0, emit_runs |-> 0,
     forced |-> FALSE, forced_out |-> 0, errors |-> 0, run_attr_ok |-> TRUE]

InitCtx ==
    [build_chunks |-> <<>>, right_finished |-> FALSE,
     shared_build_match_flag |-> <<>>, finished_probe_count |-> 0,
     force_finished |-> FALSE]

Init ==
    /\ join_op \in JoinOps
    /\ has_join_conjuncts \in BOOLEAN
    /\ has_conjuncts \in BOOLEAN
    /\ chunk_size \in 1..MaxChunkSize
    /\ num_parts \in 1..MaxParts
    /\ ctx = InitCtx
    /\ op = [p \in 1..MaxParts |-> InitOp]
    /\ hist = [p \in 1..MaxParts |-> InitHist]
    /\ crashed = FALSE

Config == <<join_op, has_join_conjuncts, has_conjuncts, chunk_size, num_parts>>

\* the build-side sink appends a build chunk of n rows
append_build_chunk(n) ==
    /\ ~crashed
    /\ ~ctx.right_finished
    /\ num_build_rows + n <= MaxBuildRows
    /\ ctx' = [ctx EXCEPT !.build_chunks = Append(@, n)]
    /\ UNCHANGED <<Config, op, hist, crashed>>

\* the build-side sink signals completion; the shared flags are sized
mark_right_finished ==
    /\ ~crashed
    /\ ~ctx.right_finished
    /\ ctx' = [ctx EXCEPT !.right_finished = TRUE,
                          !.shared_build_match_flag = [i \in 1..num_build_rows |-> FALSE]]
    /\ UNCHANGED <<Config, op, hist, crashed>>

\* push_chunk, called by a driver that honours need_input and pushes nothing
\* after set_finishing
push_chunk(p, chunk) ==
    /\ ~crashed
    /\ need_input(op[p])
    /\ ~op[p].input_finished
    /\ op' = [op EXCEPT ![p] =
                [_move_build_chunk_index(@, 0) EXCEPT
                    !.self_build_match_flag = _init_build_match(@),
                    !.probe_chunk = chunk,
                    !.probe_base = Len(hist[p].pushed),
                    !.probe_row_start = 0,
                    !.probe_row_current = 0,
                    !.probe_row_matched = FALSE]]
    /\ hist' = [hist EXCEPT ![p].pushed = @ \o chunk, ![p].pairs = <<>>,
                            ![p].gen = <<>>]
    /\ UNCHANGED <<Config, ctx, crashed>>

\* has_output
has_output(p) ==
    /\ ~crashed
    /\ LET r == _check_post_probe(op[p], ctx, hist[p])
       IN /\ op' = [op EXCEPT ![p] = r.st]
          /\ ctx' = r.cx
          /\ hist' = [hist EXCEPT ![p] = r.hs]
    /\ UNCHANGED <<Config, crashed>>

\* is_finished: has_output is evaluated only if the first conjunct holds
is_finished(p) ==
    /\ ~crashed
    /\ op[p].input_finished \/ _skip_probe
    /\ LET r == _check_post_probe(op[p], ctx, hist[p])
       IN /\ op' = [op EXCEPT ![p] = r.st]
          /\ ctx' = r.cx
          /\ hist' = [hist EXCEPT ![p] = r.hs]
    /\ UNCHANGED <<Config, crashed>>

\* set_finishing; the driver of an OperatorWithDependency runs, and so passes
\* on the end of its input, only once is_ready holds
set_finishing(p) ==
    /\ ~crashed
    /\ is_ready
    /\ LET r == _check_post_probe(op[p], ctx, hist[p])
       IN /\ op' = [op EXCEPT ![p] = [r.st EXCEPT !.input_finished = TRUE]]
          /\ ctx' = r.cx
          /\ hist' = [hist EXCEPT ![p] = r.hs]
    /\ UNCHANGED <<Config, crashed>>

\* pull_chunk
pull_chunk(p) ==
    /\ ~crashed
    /\ \E gb \in Garbage :
         LET returned(r) ==
                 /\ op' = [op EXCEPT ![p] = r.st]
                 /\ hist' = [hist EXCEPT ![p] =
                        IF r.res = <<>> THEN r.hs ELSE [r.hs EXCEPT !.out = Append(@, r.res)]]
                 /\ crashed' = r.dead
         IN returned(pull_chunk_result(op[p], hist[p], gb))
    /\ UNCHANGED <<Config, ctx>>

\* pull_chunk returning the error status of a predicate evaluation, the k-th of
\* the call; the status is handed to the caller and the partition goes on
pull_chunk_error(p) ==
    /\ ~crashed
    /\ hist[p].errors < MaxErrors
    /\ \E k \in 1..MaxEvals : \E gb \in Garbage :
         LET returned(r) ==
                 /\ r.st.failed
                 /\ op' = [op EXCEPT ![p] = [r.st EXCEPT !.failed = FALSE]]
                 /\ hist' = [hist EXCEPT ![p] = [r.hs EXCEPT !.errors = @ + 1]]
         IN returned(pull_chunk_result([op[p] EXCEPT !.fail_in = k], hist[p], gb))
    /\ UNCHANGED <<Config, ctx, crashed>>

\* what has_output returns
has_output_result(p) == _check_post_probe(op[p], ctx, hist[p]).st.join_stage # Finished

\* what is_finished returns
is_finished_result(p) == (op[p].input_finished \/ _skip_probe) /\ ~has_output_result(p)

\* CrossJoinContext::set_finished: the context takes note of the signal
ctx_set_finished(cx) == [cx EXCEPT !.force_finished = TRUE]

\* set_finished: the signal goes to the context, no field of the operator changes;
\* forced_out is the number of chunks returned so far
set_finished(p) ==
    /\ ~crashed
    /\ ~hist[p].forced
    /\ ctx' = ctx_set_finished(ctx)
    /\ hist' = [hist EXCEPT ![p].forced = TRUE, ![p].forced_out = Len(hist[p].out)]
    /\ UNCHANGED <<Config, op, crashed>>

Next ==
    \/ \E n \in 1..MaxBuildRows : append_build_chunk(n)
    \/ mark_right_finished
    \/ \E p \in Parts : \E chunk \in ProbeChunks : push_chunk(p, chunk)
    \/ \E p \in Parts : has_output(p)
    \/ \E p \in Parts : is_finished(p)
    \/ \E p \in Parts : set_finishing(p)
    \/ \E p \in Parts : pull_chunk(p)

\* one partition, every join kind and input within the bounds
InitSingle == Init /\ num_parts = 1

Spec == InitSingle /\ [][Next]_vars

\* MaxParts partitions of a right/full outer join sharing the context, no
\* residual predicate
InitPar == Init /\ num_parts = MaxParts /\ _is_right_join /\ ~has_conjuncts

SpecPar == InitPar /\ [][Next]_vars

\* Next with the forced finish, which the driver may signal at any time
NextForce ==
    \/ Next
    \/ \E p \in Parts : set_finished(p)

\* one partition under a driver that may force the finish
SpecForce == InitSingle /\ [][NextForce]_vars

\* Next with predicate evaluations that may fail
NextFail ==
    \/ Next
    \/ \E p \in Parts : pull_chunk_error(p)

\* one partition whose predicates may fail
SpecFail == InitSingle /\ [][NextFail]_vars

\* ------------------------------------------------------------------- claims
\* rows partition p has returned from pull_chunk, in order
Rows(p) == Flatten(hist[p].out)

\* rows returned by all partitions
AllRows == Flatten([p \in 1..MaxParts |-> Rows(p)])

\* nothing of what was pushed to p is left in the operator
Quiet(p) == _is_curr_probe_chunk_finished(op[p]) /\ ChunkAccumulator_empty(op[p].acc)

\* partition p entered stage RightJoin at some time
EverRightJoin(p) == op[p].join_stage = RightJoin \/ hist[p].emit_runs > 0

\* C1: of the partitions of a right/full outer join, at most one ever enters
\* RightJoin and it runs the emission pass at most once; once all have left
\* Probe exactly one has entered it; the others are in Probe or Finished only.
C1_SingleEmitter ==
    _is_right_join =>
        /\ Cardinality({p \in Parts : EverRightJoin(p)}) <= 1
        /\ \A p \in Parts : hist[p].emit_runs <= 1
        /\ \A p \in Parts : ~EverRightJoin(p) => op[p].join_stage \in {Probe, Finished}
        /\ (\A p \in Parts : op[p].join_stage # Probe)
              => Cardinality({p \in Parts : EverRightJoin(p)}) = 1

\* both partitions probed a row and finished, partition 1 ran the emission
C1_Witness ==
    /\ num_parts >= 2 /\ _is_right_join /\ num_build_rows > 0
    /\ \A p \in Parts : op[p].join_stage = Finished /\ hist[p].pushed # <<>>
    /\ hist[1].emit_runs = 1 /\ hist[2].emit_runs = 0
    /\ ~crashed

\* C2: once a partition has entered RightJoin, every partition has called
\* finish_probe and left Probe, and every local match flag that is set is set
\* in the shared flags the emission reads.
C2_EmissionAfterAll ==
    \A p \in Parts : EverRightJoin(p) =>
        \A q \in Parts :
            /\ hist[q].finish_calls >= 1
            /\ op[q].join_stage # Probe
            /\ \A i \in 1..Len(op[q].self_build_match_flag) :
                  op[q].self_build_match_flag[i] => ctx.shared_build_match_flag[i]

\* partition 2 runs the emission after partition 1 handed over a set flag
C2_Witness ==
    /\ num_parts >= 2
    /\ hist[2].emit_runs = 1
    /\ \E i \in 1..Len(op[1].self_build_match_flag) : op[1].self_build_match_flag[i]
    /\ \E i \in 1..Len(ctx.shared_build_match_flag) : ~ctx.shared_build_match_flag[i]

\* C9: the join stage of a partition never decreases, a Finished partition stays
\* Finished, and nothing is returned by a pull_chunk of a Finished partition.
C9_StageForward ==
    [][\A p \in 1..MaxParts :
          /\ op[p].join_stage <= op'[p].join_stage
          /\ op[p].join_stage = Finished =>
                /\ op'[p].join_stage = Finished
                /\ hist'[p].out = hist[p].out]_vars

\* a partition went through the emission and its draining to Finished
C9_Witness ==
    \E p \in Parts : op[p].join_stage = Finished /\ hist[p].emit_runs = 1
                      /\ \E i \in 1..Len(Rows(p)) : Rows(p)[i][1] = 0

\* C10: while right_side_finished is unset need_input is false, and no
\* partition holds or was given a probe chunk or has read a build chunk.
C10_NoProbeBeforeReady ==
    ~is_right_finished =>
        \A p \in Parts :
            /\ ~need_input(op[p])
            /\ op[p].probe_chunk = <<>> /\ hist[p].pushed = <<>>
            /\ ~op[p].build_read

\* the build side holds rows and is not finished while the partition is polled
C10_Witness ==
    /\ ~is_right_finished /\ num_build_rows > 0
    /\ \E p \in Parts : ~need_input(op[p])


\* the build rows the join conjuncts accept for a probe row of value v
Matches(v) == v \cap (1..num_build_rows)

\* the pairs <<probe row, build chunk>> of n probe rows, in generation order
EnumPairs(n) ==
    [k \in 1..(n * _num_build_chunks) |->
        <<(k - 1) \div _num_build_chunks, (k - 1) % _num_build_chunks>>]

\* the cross product of the current probe chunk of st with the build rows, in order
EnumRows(st) ==
    [k \in 1..(Len(st.probe_chunk) * num_build_rows) |->
        <<st.probe_base + ((k - 1) \div num_build_rows) + 1, ((k - 1) % num_build_rows) + 1>>]

IsPrefix(s, t) == Len(s) <= Len(t) /\ SubSeq(t, 1, Len(s)) = s

\* C5: inner join without join or residual predicates: once nothing of the
\* pushed rows is left in the operator, the rows returned are the cross product
\* of the pushed probe rows with the build rows, each pair once; a Finished
\* partition has nothing left.
C5_InnerCrossProduct ==
    (join_op = "INNER_JOIN" /\ ~has_join_conjuncts /\ ~has_conjuncts) =>
        \A p \in Parts :
            /\ op[p].join_stage = Finished => Quiet(p)
            /\ Quiet(p) =>
                /\ Len(Rows(p)) = Len(hist[p].pushed) * num_build_rows
                /\ \A i \in 1..Len(hist[p].pushed) : \A g \in 1..num_build_rows :
                      Count(Rows(p), <<i, g>>) = 1

\* two probe rows against three build rows in two chunks, all six rows returned
C5_Witness ==
    /\ join_op = "INNER_JOIN" /\ ~has_join_conjuncts /\ ~has_conjuncts
    /\ _num_build_chunks = 2 /\ num_build_rows = 3 /\ chunk_size = 2
    /\ \E p \in Parts : Quiet(p) /\ Len(op[p].probe_chunk) = 2 /\ Len(Rows(p)) = 6

\* C6: the pairs appended by the _permute_chunk calls for the current probe
\* chunk are a prefix of the enumeration (probe rows in order, per row the build
\* chunks in order), the rows generated are the same prefix of the cross
\* product, and both are complete once the probe chunk is finished.
C6_ExactResumption ==
    \A p \in Parts :
        /\ IsPrefix(hist[p].pairs, EnumPairs(Len(op[p].probe_chunk)))
        /\ IsPrefix(hist[p].gen, EnumRows(op[p]))
        /\ _is_curr_probe_chunk_finished(op[p]) =>
              /\ hist[p].pairs = EnumPairs(Len(op[p].probe_chunk))
              /\ hist[p].gen = EnumRows(op[p])

\* two probe rows against two build chunks generated one pair per call
C6_Witness ==
    \E p \in Parts :
        /\ chunk_size = 1 /\ _num_build_chunks = 2
        /\ Len(op[p].probe_chunk) = 2 /\ _is_curr_probe_chunk_finished(op[p])
        /\ Len(hist[p].pairs) = 4

\* rows of the largest build chunk
MaxBuildChunkRows ==
    IF ctx.build_chunks = <<>> THEN 0
    ELSE CHOOSE m \in Range(ctx.build_chunks) : \A n \in Range(ctx.build_chunks) : n <= m

\* C7 as stated: no batch returned by _permute_chunk has more than chunk_size rows.
C7_Original == \A p \in Parts : hist[p].gen_max <= chunk_size

\* C7 amended: a batch returned by _permute_chunk has at most chunk_size - 1
\* rows plus the rows of the largest build chunk.
C7_Amended == \A p \in Parts : hist[p].gen_max <= chunk_size - 1 + MaxBuildChunkRows

\* a batch larger than chunk_size that meets the amended bound
C7_Witness ==
    \E p \in Parts : /\ hist[p].gen_max > chunk_size
                     /\ hist[p].gen_max = chunk_size - 1 + MaxBuildChunkRows

\* C3 as stated: left/full outer join with join predicates (no residual
\* predicate, no crash): once nothing of the pushed rows is left in the
\* operator, every probe row was returned; a row matching no build row was
\* returned once, with null build columns, one matching some build row never
\* with null build columns.
C3_LeftOuterTotality ==
    (_is_left_join /\ has_join_conjuncts /\ ~has_conjuncts /\ ~crashed) =>
        \A p \in Parts : Quiet(p) =>
            \A i \in 1..Len(hist[p].pushed) :
                /\ \E k \in 1..Len(Rows(p)) : Rows(p)[k][1] = i
                /\ Matches(hist[p].pushed[i]) = {} =>
                      Cardinality({k \in 1..Len(Rows(p)) : Rows(p)[k][1] = i}) = 1
                /\ Count(Rows(p), <<i, 0>>) =
                      (IF Matches(hist[p].pushed[i]) = {} THEN 1 ELSE 0)

\* the build rows matched by a probe row pushed to some partition
MatchedBuildRows ==
    {g \in 1..num_build_rows :
        \E p \in Parts : \E i \in 1..Len(hist[p].pushed) : g \in hist[p].pushed[i]}

\* C4 as stated: right/full outer join with join predicates (no residual
\* predicate, no crash): when all partitions are Finished every build row was
\* returned; an unmatched one once, with null probe columns, a matched one
\* never with null probe columns.
C4_RightOuterTotality ==
    (/\ _is_right_join /\ has_join_conjuncts /\ ~has_conjuncts /\ ~crashed
     /\ \A p \in Parts : op[p].join_stage = Finished) =>
        \A g \in 1..num_build_rows :
            /\ \E k \in 1..Len(AllRows) : AllRows[k][2] = g
            /\ g \notin MatchedBuildRows =>
                  Cardinality({k \in 1..Len(AllRows) : AllRows[k][2] = g}) = 1
            /\ Count(AllRows, <<0, g>>) = (IF g \in MatchedBuildRows THEN 0 ELSE 1)

\* C8 as stated: left/full outer join, no build chunk: once nothing of the
\* pushed rows is left in the operator, each probe row was returned once with
\* null build columns and nothing else, and no join predicate was evaluated.
C8_EmptyBuildLeft ==
    (_is_left_join /\ is_right_finished /\ _num_build_chunks = 0) =>
        \A p \in Parts : Quiet(p) =>
            /\ Len(Rows(p)) = Len(hist[p].pushed)
            /\ \A i \in 1..Len(hist[p].pushed) : Count(Rows(p), <<i, 0>>) = 1
            /\ ~hist[p].join_evals

\* C11 as stated: after set_finished on a partition has_output is false and
\* pull_chunk returns no further chunk.
C11_ForceFinished ==
    \A p \in Parts : hist[p].forced =>
        /\ ~has_output_result(p)
        /\ Len(hist[p].out) = hist[p].forced_out

\* C12 as stated: a pull_chunk that returns the error of a predicate evaluation
\* leaves the join stage as it was and has enqueued nothing in the accumulator.
C12_FailedPullClean ==
    [][\A p \in Parts : hist'[p].errors > hist[p].errors =>
            /\ op'[p].join_stage = op[p].join_stage
            /\ op'[p].acc = op[p].acc]_vars

\* C13 as stated: right/full outer join without join predicates: a build row
\* returned in a pair with a probe row is never returned with null probe columns.
C13_NoPredicateAllMatch ==
    (_is_right_join /\ ~has_join_conjuncts) =>
        \A g \in 1..num_build_rows :
            (\E k \in 1..Len(AllRows) : AllRows[k][2] = g /\ AllRows[k][1] > 0)
                => Count(AllRows, <<0, g>>) = 0

\* C14: a partition calls finish_probe at most once, only in a right/full outer
\* join, only in stage Probe and only when its input is finished with the probe
\* chunk and the accumulator exhausted, or when probing is skipped.
C14_FinishProbeOnce ==
    [][\A p \in Parts : hist'[p].finish_calls # hist[p].finish_calls =>
            /\ hist[p].finish_calls = 0 /\ hist'[p].finish_calls = 1
            /\ _is_right_join
            /\ op[p].join_stage = Probe
            /\ (op[p].input_finished /\ Quiet(p)) \/ _skip_probe]_vars

\* the partition made its call after probing a row and was polled to Finished
C14_Witness ==
    \E p \in Parts : /\ hist[p].finish_calls = 1 /\ hist[p].pushed # <<>>
                      /\ op[p].join_stage = Finished /\ ~crashed

\* the build rows some probe row pushed to partition p matches
MatchedBy(p) == {g \in 1..num_build_rows : \E i \in 1..Len(hist[p].pushed) : g \in hist[p].pushed[i]}

\* C15 as stated: right/full outer join, several build chunks, no crash: a
\* generated row whose filter entry is true has the local flag of its build row
\* set, and a local flag is set only for a build row with a true filter entry.
C15_FlagsAtOffset ==
    (_is_right_join /\ has_join_conjuncts /\ _num_build_chunks > 1 /\ ~crashed) =>
        \A p \in Parts :
            /\ \A k \in 1..Len(hist[p].gen) :
                  hist[p].gen[k][2] \in ProbeValue(op[p], hist[p].gen[k])
                     => op[p].self_build_match_flag[hist[p].gen[k][2]]
            /\ \A g \in 1..Len(op[p].self_build_match_flag) :
                  op[p].self_build_match_flag[g] => g \in MatchedBy(p)

\* C16 as stated: left/full outer join with join predicates and one build chunk
\* (no crash): every run of the filter was attributed to the probe row broadcast
\* into its rows, so a probe row returned with null build columns matches no
\* build row.
C16_RunAttribution ==
    (_is_left_join /\ has_join_conjuncts /\ _num_build_chunks = 1 /\ ~crashed) =>
        \A p \in Parts :
            /\ hist[p].run_attr_ok
            /\ \A k \in 1..Len(Rows(p)) :
                  (Rows(p)[k][1] > 0 /\ Rows(p)[k][2] = 0)
                     => Matches(hist[p].pushed[Rows(p)[k][1]]) = {}

\* the stage of partition p after the transition rule was evaluated once more
StageAfterCheck(p) == _check_post_probe(op[p], ctx, hist[p]).st.join_stage

\* C17: while probing is skipped need_input is false, no probe chunk was accepted
\* and no row returned, the partition is Finished as soon as it is polled (in a
\* right outer join the partition granted the emission after its one pull_chunk)
\* and is_finished is true then, whether or not set_finishing was called; a
\* left/full outer join never skips probing.
C17_SkipProbe ==
    \A p \in Parts :
        /\ _is_left_join => ~_skip_probe
        /\ _skip_probe =>
              /\ ~need_input(op[p])
              /\ hist[p].pushed = <<>> /\ Rows(p) = <<>>
              /\ StageAfterCheck(p) = Finished
                    \/ (_is_right_join /\ StageAfterCheck(p) = RightJoin)
              /\ is_finished_result(p) <=> StageAfterCheck(p) = Finished

\* a right outer join over an empty build side finished without set_finishing
C17_Witness ==
    \E p \in Parts : /\ _skip_probe /\ _is_right_join
                      /\ op[p].join_stage = Finished /\ ~op[p].input_finished
                      /\ hist[p].emit_runs = 1 /\ is_finished_result(p)

\* C18 as stated, in the form a finite run refutes: no partition is stopped for
\* good before it reached stage Finished (a process that died on a null
\* dereference takes no further step, whatever the driver does).
C18_NeverStoppedBeforeFinished ==
    crashed => \A p \in Parts : op[p].join_stage = Finished

\* C19 as stated: with join predicates and a non-empty build side, every call
\* of _probe finds the objects it reads (the filter on the left paths, the
\* current build chunk on the right multi-chunk path), so none dereferences null.
C19_ProbeObjectsPresent ==
    (has_join_conjuncts /\ num_build_rows > 0) => ~crashed

\* C20: a partition whose stage is Finished has an empty accumulator and a fully
\* consumed probe chunk, and its input was marked finished or probing is
\* skipped; is_finished is true exactly when the stage after re-evaluating the
\* transition rule is Finished.
C20_FinishedIsDrained ==
    \A p \in Parts :
        /\ op[p].join_stage = Finished =>
              /\ Quiet(p)
              /\ op[p].input_finished \/ _skip_probe
        /\ StageAfterCheck(p) = Finished =>
              op[p].input_finished \/ _skip_probe
        /\ is_finished_result(p) <=> StageAfterCheck(p) = Finished

\* a full outer join partition is Finished after returning matched rows and,
\* from the emission pass, unmatched build rows
C20_Witness ==
    \E p \in Parts : /\ op[p].join_stage = Finished /\ is_finished_result(p)
                      /\ op[p].input_finished /\ ~_skip_probe
                      /\ hist[p].emit_runs = 1
                      /\ \E i \in 1..Len(Rows(p)) : Rows(p)[i][1] = 0
                      /\ \E j \in 1..Len(Rows(p)) : Rows(p)[j][1] # 0

====
